---- MODULE Spec2Model ----
(***************************************************************************)
(* A model of the cranberry palette tool (src/unnamed/part_000, the        *)
(* richest of the three variants of app.tsx; part_001 has the same update  *)
(* for name and hex only, src/src/app.tsx the same getShades and no        *)
(* editing).                                                               *)
(*                                                                         *)
(*  - The palette model: the React state `palette`, the module constant    *)
(*    DEFAULT_COLORS, and the update closure updateAttrForIndex with the   *)
(*    five input handlers of ColorPicker that call it.                     *)
(*  - The shade generator getShades, a pure function of one Color.         *)
(*                                                                         *)
(* Number representation.  JavaScript numbers are modelled in fixed point: *)
(* mix ratios in hundredths (0.9 is 90), LAB coordinates in hundredths.    *)
(* A quotient i / length is kept as the pair <<i, length>>; an eased value *)
(* is again a pair <<numerator, denominator>>.                             *)
(*                                                                         *)
(* JavaScript values are tagged pairs <<tag, payload>> so that values of   *)
(* different types can be compared: <<"num", 90>>, <<"str", "gray">>,       *)
(* <<"NaN", 0>>, <<"null", 0>>, <<"undefined", 0>>, <<"obj", fields>>.      *)
(***************************************************************************)
EXTENDS Integers, Sequences, FiniteSets, TLC

VARIABLES
    heap,        \* array objects by identity: id -> [length, elems]
    palette,     \* the React state: a reference (id) to the current array
    prev,        \* the reference the state held before the last update
    prevValue,   \* history: the value of the array `prev` when it was current
    last,        \* history: the last input event / call and its arguments
    edits,       \* number of updates so far (bounded by MaxEdits)
    seed,        \* getShades: the Color argument
    ramp,        \* getShades: the returned colors (<<>> before the call)
    samples      \* getShades: per returned color, the gradient, quotient and value

vars == <<heap, palette, prev, prevValue, last, edits, seed, ramp, samples>>

(***************************************************************************)
(* Bounds of the model and constants of the program.                       *)
(***************************************************************************)
MaxEdits == 2

ShadeCount == 10

DefaultRatio == 90

(***************************************************************************)
(* JavaScript values.                                                      *)
(***************************************************************************)
Num(n) == <<"num", n>>

Str(s) == <<"str", s>>

Obj(fields) == <<"obj", fields>>

NaN == <<"NaN", 0>>

Null == <<"null", 0>>

Undefined == <<"undefined", 0>>

IsObj(v) == v[1] = "obj"

IsNum(v) == v[1] = "num"

ATTRS == {"name", "hex", "targetIndex", "shadingFunction",
          "whiteMixRatio", "blackMixRatio"}

SHADING_KEYS == {"linear", "easeIn", "easeOut", "easeInOut"}

(***************************************************************************)
(* DEFAULT_COLORS: one neutral entry and five hue entries.  An array is a  *)
(* record [length, elems]; elems maps the keys that are present (an array  *)
(* may have holes, and may carry non-index keys such as -1).               *)
(***************************************************************************)
DefaultEntry(name, hex, targetIndex, shadingFunction) ==
    Obj([name |-> Str(name), hex |-> Str(hex), targetIndex |-> Num(targetIndex),
         shadingFunction |-> Str(shadingFunction),
         whiteMixRatio |-> Num(90), blackMixRatio |-> Num(85)])

DEFAULT_COLORS ==
    [length |-> 6,
     elems |-> [k \in 0..5 |->
        CASE k = 0 -> DefaultEntry("gray", "#302c2c", 7, "easeOut")
          [] k = 1 -> DefaultEntry("yellow", "#ffdc40", 5, "easeInOut")
          [] k = 2 -> DefaultEntry("red", "#e4593e", 5, "easeInOut")
          [] k = 3 -> DefaultEntry("teal", "#18aa96", 5, "easeInOut")
          [] k = 4 -> DefaultEntry("blue", "#45a4f9", 5, "easeInOut")
          [] OTHER -> DefaultEntry("green", "#79cb3a", 5, "easeInOut")]]

EmptyArray == [length |-> 0, elems |-> [k \in {} |-> Null]]

ArrayIds == {"DEFAULT_COLORS", "state0", "a", "b"}

\* [...DEFAULT_COLORS]: a new array with the same elements.
SpreadArray(arr) ==
    [length |-> arr.length,
     elems |-> [k \in 0..(arr.length - 1) |->
                  IF k \in DOMAIN arr.elems THEN arr.elems[k] ELSE Undefined]]

(***************************************************************************)
(* JSON.parse(JSON.stringify(x)): a deep copy in which NaN becomes null,   *)
(* a hole or an undefined element becomes null, a property whose value is  *)
(* undefined is dropped, and non-index keys of an array are lost.          *)
(***************************************************************************)
JsonScalar(v) == IF v[1] \in {"NaN", "undefined"} THEN Null ELSE v

JsonValue(v) ==
    IF IsObj(v)
    THEN Obj([a \in {x \in DOMAIN v[2] : v[2][x][1] # "undefined"} |->
                JsonScalar(v[2][a])])
    ELSE JsonScalar(v)

JsonRoundTrip(arr) ==
    [length |-> arr.length,
     elems |-> [k \in 0..(arr.length - 1) |->
                  IF k \in DOMAIN arr.elems THEN JsonValue(arr.elems[k]) ELSE Null]]

\* arr[index] read: undefined when the key is absent.
ArrayGet(arr, index) ==
    IF index \in DOMAIN arr.elems THEN arr.elems[index] ELSE Undefined

\* arr[index] = v: the key is created when absent; a key >= length grows the array.
ArraySet(arr, index, v) ==
    [length |-> IF index >= arr.length THEN index + 1 ELSE arr.length,
     elems |-> [k \in DOMAIN arr.elems \cup {index} |->
                  IF k = index THEN v ELSE arr.elems[k]]]

\* { ...old, [attr]: value }: spreading undefined or null contributes nothing.
SpreadWith(old, attr, value) ==
    LET fields == IF IsObj(old) THEN old[2] ELSE [a \in {} |-> Null]
    IN  Obj([a \in DOMAIN fields \cup {attr} |->
               IF a = attr THEN value ELSE fields[a]])

\* An in-place variant: no copy is made, the current array is the one written.
NoCopy(h, src, fresh) == [heap |-> h, ref |-> src]

\* const newPalette = JSON.parse(JSON.stringify(palette)): a fresh array.
DeepCopy(h, src, fresh) ==
    [heap |-> [h EXCEPT ![fresh] = JsonRoundTrip(h[src])], ref |-> fresh]

\* An identity the garbage collector has freed: not the current array, and not
\* the one the previous state (an observer's old reference) points to.
Fresh(ref) == IF ref = "a" THEN "b" ELSE "a"

(***************************************************************************)
(* Input conversions of the ColorPicker handlers.                          *)
(***************************************************************************)
\* x ?? d
NullishOr(x, d) == IF x[1] \in {"null", "undefined"} THEN d ELSE x

Falsy(x) == x \in {NaN, Null, Undefined, Num(0), Str("")}

\* A handler that stores whatever Number(...) returned.
NoDefault(x, d) == x

\* x || d
LogicalOr(x, d) == IF Falsy(x) THEN d ELSE x

IsDigit(c) == c \in {"0", "1", "2", "3", "4", "5", "6", "7", "8", "9"}

DigitValue(c) ==
    CASE c = "0" -> 0 [] c = "1" -> 1 [] c = "2" -> 2 [] c = "3" -> 3
      [] c = "4" -> 4 [] c = "5" -> 5 [] c = "6" -> 6 [] c = "7" -> 7
      [] c = "8" -> 8 [] OTHER -> 9

RECURSIVE DigitsValue(_)
DigitsValue(s) ==
    IF s = <<>> THEN 0
    ELSE DigitsValue(SubSeq(s, 1, Len(s) - 1)) * 10 + DigitValue(s[Len(s)])

\* Number(text) for a text given as a sequence of characters: the empty text is
\* 0, a signed decimal literal is its value (in hundredths, further decimals
\* cut), anything else is NaN.  Exponents, white space and the literals
\* "Infinity" and "0x.." are not covered: an <input type="number"> reports a
\* text it cannot parse as "".
Number(text) ==
    LET signed == Len(text) > 0 /\ text[1] \in {"-", "+"}
        body == IF signed THEN Tail(text) ELSE text
        dots == {k \in 1..Len(body) : body[k] = "."}
        dot == IF dots = {} THEN Len(body) + 1
               ELSE CHOOSE k \in dots : \A j \in dots : k <= j
        int == SubSeq(body, 1, dot - 1)
        frac == SubSeq(body, dot + 1, Len(body))
        wellFormed == /\ Cardinality(dots) <= 1
                      /\ \A k \in 1..Len(int) : IsDigit(int[k])
                      /\ \A k \in 1..Len(frac) : IsDigit(frac[k])
                      /\ Len(int) + Len(frac) >= 1
        hundredths == (IF Len(frac) >= 1 THEN DigitValue(frac[1]) * 10 ELSE 0)
                      + (IF Len(frac) >= 2 THEN DigitValue(frac[2]) ELSE 0)
        magnitude == DigitsValue(int) * 100 + hundredths
    IN  IF text = <<>> THEN Num(0)
        ELSE IF ~wellFormed THEN NaN
        ELSE IF text[1] = "-" THEN Num(0 - magnitude) ELSE Num(magnitude)

\* The value a mix-ratio input hands to its setter: Number(value) || 0.9.
RatioValue(text) == LogicalOr(Number(text), Num(DefaultRatio))

(***************************************************************************)
(* Inputs.                                                                 *)
(***************************************************************************)
NameInputs == {"charcoal"}

HexInputs == {"#000000"}

ShadingInputs == {"linear"}

\* Texts typed into the two mix-ratio inputs: not a number, zero, above 1,
\* inside (0, 1); and not a number, empty, exactly 1, below 0.
WhiteRatioTexts == { <<"a", "b", "c">>, <<"0">>, <<"2">>, <<"0", ".", "5">> }

BlackRatioTexts == { <<"a", "b", "c">>, <<>>, <<"1">>, <<"-", "1">> }

RatioAttrs == {"whiteMixRatio", "blackMixRatio"}

NoEvent == [index |-> 0, attr |-> "none", raw |-> <<>>, value |-> Undefined,
            error |-> "none"]

(***************************************************************************)
(* updateAttrForIndex(index, attr, value), with setPalette(newPalette).    *)
(* `raw` is the text of the input event that led to the call.              *)
(***************************************************************************)
\* A replacement that keeps only the attribute written.
ReplaceEntry(arr, index, attr, value) ==
    ArraySet(arr, index, Obj([a \in {attr} |-> value]))

\* newPalette[index] = { ...newPalette[index], [attr]: value }
AssignEntry(arr, index, attr, value) ==
    ArraySet(arr, index, SpreadWith(ArrayGet(arr, index), attr, value))

updateAttrForIndex(index, attr, value, raw) ==
    LET c == DeepCopy(heap, palette, Fresh(palette))
    IN  /\ heap' = [c.heap EXCEPT
                      ![c.ref] = AssignEntry(c.heap[c.ref], index, attr, value)]
        /\ palette' = c.ref
        /\ prev' = palette
        /\ prevValue' = heap[palette]
        /\ last' = [index |-> index, attr |-> attr, raw |-> raw, value |-> value,
                    error |-> "none"]
        /\ edits' = edits + 1
        /\ UNCHANGED <<seed, ramp, samples>>

\* palette.map((color, i) => ...): one ColorPicker per element present.
Rendered(arr) == {k \in 0..(arr.length - 1) : k \in DOMAIN arr.elems}

SetName ==
    /\ edits < MaxEdits
    /\ \E i \in Rendered(heap[palette]), text \in NameInputs :
          updateAttrForIndex(i, "name", NullishOr(Str(text), Str("")), text)

SetHex ==
    /\ edits < MaxEdits
    /\ \E i \in Rendered(heap[palette]), text \in HexInputs :
          updateAttrForIndex(i, "hex", NullishOr(Str(text), Str("#000")), text)

SetShadingFunction ==
    /\ edits < MaxEdits
    /\ \E i \in Rendered(heap[palette]), text \in ShadingInputs :
          updateAttrForIndex(i, "shadingFunction",
                             NullishOr(Str(text), Str("linear")), text)

SetWhiteMixRatio ==
    /\ edits < MaxEdits
    /\ \E i \in Rendered(heap[palette]), text \in WhiteRatioTexts :
          updateAttrForIndex(i, "whiteMixRatio", RatioValue(text), text)

SetBlackMixRatio ==
    /\ edits < MaxEdits
    /\ \E i \in Rendered(heap[palette]), text \in BlackRatioTexts :
          updateAttrForIndex(i, "blackMixRatio", RatioValue(text), text)

(***************************************************************************)
(* chroma-js, as far as getShades uses it.  A color is its LAB triple in   *)
(* hundredths.                                                             *)
(***************************************************************************)
\* chroma(hex): parse and convert to LAB (D65), rounded to hundredths.
Chroma(hex) ==
    CASE hex = "#302c2c" -> <<1842, 181, 65>>
      [] hex = "#ffdc40" -> <<8836, -317, 7588>>
      [] hex = "#e4593e" -> <<5608, 5255, 4314>>
      [] hex = "#18aa96" -> <<6263, -4027, 16>>
      [] hex = "#45a4f9" -> <<6548, -40, -5034>>
      [] hex = "#79cb3a" -> <<7424, -4852, 6103>>
      [] hex = "#fff" -> <<10000, 0, 0>>
      [] hex = "#cccccc" -> <<8205, 0, 0>>
      [] OTHER -> <<0, 0, 0>>

\* a.mix(b, ratio, "lab"): a + ratio * (b - a) on each coordinate; the ratio
\* (in hundredths) is used as given, it is not clamped.  The result is kept
\* as computed: the library's clipping of a color to the sRGB gamut is not
\* modelled.
Mix(a, b, ratio) == [k \in 1..3 |-> a[k] + (ratio * (b[k] - a[k])) \div 100]

\* chroma.scale(stops).mode("lab") applied to t = <<n, d>>: t is clamped to
\* [0, 1], the stops are returned as they are at 0 and 1, NaN gives the
\* library's no-data color.
Scale(stops, t) ==
    LET n == t[1]
        d == t[2]
    IN  IF d = 0 /\ n = 0 THEN Chroma("#cccccc")
        ELSE IF (d = 0 /\ n < 0) \/ (d > 0 /\ n <= 0) THEN stops[1]
        ELSE IF d = 0 \/ n >= d THEN stops[2]
        ELSE [k \in 1..3 |-> stops[1][k] + (n * (stops[2][k] - stops[1][k])) \div d]

(***************************************************************************)
(* SHADING: the four easing functions, on a quotient x = <<n, d>>.         *)
(* Math.sin and Math.cos are replaced by Bhaskara's rational approximation *)
(*   sin(x pi / 2) ~ 4 x (2 - x) / (5 - x (2 - x)),                        *)
(*   cos(x pi / 2) ~ 4 (1 - x^2) / (4 + x^2),        0 <= x <= 1,          *)
(* which is within 0.002 of the true value and exact at x = 0 and x = 1.   *)
(* A quotient with d = 0 is Infinity (n # 0) or NaN (n = 0); sin and cos   *)
(* of either is NaN.                                                       *)
(***************************************************************************)
Linear(x) == x

EaseIn(x) ==
    LET n == x[1]
        d == x[2]
    IN  IF d = 0 THEN <<0, 0>> ELSE <<5 * n * n, 4 * d * d + n * n>>

EaseOut(x) ==
    LET n == x[1]
        d == x[2]
    IN  IF d = 0 THEN <<0, 0>>
        ELSE <<4 * n * (2 * d - n), 5 * d * d - n * (2 * d - n)>>

EaseInOut(x) ==
    LET n == x[1]
        d == x[2]
        m == d - n
    IN  IF d = 0 THEN <<0, 0>>
        ELSE IF 2 * n <= d THEN <<5 * n * n, 2 * (d * d + n * n)>>
        ELSE <<2 * d * d - 3 * m * m, 2 * (d * d + m * m)>>

SHADING(f, x) ==
    CASE f = "linear" -> Linear(x)
      [] f = "easeIn" -> EaseIn(x)
      [] f = "easeOut" -> EaseOut(x)
      [] OTHER -> EaseInOut(x)

(***************************************************************************)
(* getShades(color).                                                       *)
(***************************************************************************)
\* [...Array(n).keys()]
Keys(n) == [k \in 1..n |-> k - 1]

\* A head that starts one step late.
LateIndices(length) == [k \in 1..length |-> Keys(length)[k] + 1]

\* const indices = [...Array(length).keys()]
Indices(length) == Keys(length)

\* One sample short of the seed.
ShortLength(targetIndex) == targetIndex

\* const length = targetIndex + 1
Length(targetIndex) == targetIndex + 1

\* const extensionLength = 10 - length
ExtensionLength(length) == ShadeCount - length

\* A tail whose indices are not shifted by one.
UnshiftedIndices(extensionLength) == Keys(extensionLength)

\* A tail that starts at the seed, whatever its length.
SeedFirstIndices(extensionLength) == [k \in 1..(extensionLength + 1) |-> k - 1]

\* const extendedIndices = [...Array(extensionLength).keys()].map((i) => i + 1)
ExtendedIndices(extensionLength) ==
    [k \in 1..extensionLength |-> Keys(extensionLength)[k] + 1]

\* i / length: the quotient, kept as a pair.
Divide(i, length) == <<i, length>>

Sample(scaleName, stops, f, x) ==
    LET value == SHADING(f, x)
    IN  [scale |-> scaleName, num |-> x[1], den |-> x[2], value |-> value,
         color |-> Scale(stops, value)]

LightestShade(color) ==
    Mix(Chroma(color[2].hex[2]), Chroma("#fff"), color[2].whiteMixRatio[2])

DarkestShade(color) ==
    Mix(Chroma(color[2].hex[2]), Chroma("#000"), color[2].blackMixRatio[2])

\* colors: the head, from lightestShade towards hex.
HeadSamples(color) ==
    LET scale == <<LightestShade(color), Chroma(color[2].hex[2])>>
        length == Length(color[2].targetIndex[2])
        indices == Indices(length)
    IN  [k \in 1..Len(indices) |->
           Sample("scale", scale, color[2].shadingFunction[2],
                  Divide(indices[k], length))]

\* extendedColors: the tail, from hex towards darkestShade.
TailSamples(color) ==
    LET extendedScale == <<Chroma(color[2].hex[2]), DarkestShade(color)>>
        extensionLength == ExtensionLength(Length(color[2].targetIndex[2]))
        extendedIndices == ExtendedIndices(extensionLength)
    IN  [k \in 1..Len(extendedIndices) |->
           Sample("extendedScale", extendedScale, "linear",
                  Divide(extendedIndices[k], extensionLength))]

\* return [...colors, ...extendedColors]
Samples(color) == HeadSamples(color) \o TailSamples(color)

getShades(color) ==
    LET all == Samples(color)
    IN  [k \in 1..Len(all) |-> all[k].color]

(***************************************************************************)
(* The interactive session: App mounts with palette = [...DEFAULT_COLORS], *)
(* then input events arrive one at a time.                                 *)
(***************************************************************************)
Init ==
    /\ heap = [id \in ArrayIds |->
                 CASE id = "DEFAULT_COLORS" -> DEFAULT_COLORS
                   [] id = "state0" -> SpreadArray(DEFAULT_COLORS)
                   [] OTHER -> EmptyArray]
    /\ palette = "state0"
    /\ prev = "state0"
    /\ prevValue = SpreadArray(DEFAULT_COLORS)
    /\ last = NoEvent
    /\ edits = 0
    /\ seed = DEFAULT_COLORS.elems[0]
    /\ ramp = <<>>
    /\ samples = <<>>

Next ==
    \/ SetName
    \/ SetHex
    \/ SetShadingFunction
    \/ SetWhiteMixRatio
    \/ SetBlackMixRatio

Spec == Init /\ [][Next]_vars

(***************************************************************************)
(* updateAttrForIndex as a function of its arguments: any index, in range  *)
(* or not, on the palettes such calls produce.                             *)
(***************************************************************************)
IndexInputs(arr) == (0 - 1)..(arr.length + 1)

CallInputs ==
    {<<"name", Str("charcoal")>>, <<"hex", Str("#000000")>>,
     <<"shadingFunction", Str("linear")>>,
     <<"whiteMixRatio", Num(50)>>, <<"blackMixRatio", Num(100)>>}

CallUpdateAttrForIndex ==
    /\ edits < MaxEdits
    /\ \E index \in IndexInputs(heap[palette]), in \in CallInputs :
          updateAttrForIndex(index, in[1], in[2], "call")

NextUpdate == CallUpdateAttrForIndex

SpecUpdate == Init /\ [][NextUpdate]_vars

(***************************************************************************)
(* getShades as a function of its argument: seeds with every targetIndex   *)
(* of a ten-step ramp, every shading function, and mix ratios inside, on   *)
(* and outside the bounds of [0, 1].                                       *)
(***************************************************************************)
SeedHexes == {"#302c2c", "#ffdc40", "#e4593e", "#18aa96", "#45a4f9", "#79cb3a"}

WhiteRatios == {0, 50, 90, 100, 200}

BlackRatios == {0 - 100, 0, 85, 100}

Seeds ==
    {Obj([name |-> Str("seed"), hex |-> Str(h), targetIndex |-> Num(t),
          shadingFunction |-> Str(f), whiteMixRatio |-> Num(w),
          blackMixRatio |-> Num(b)]) :
        h \in SeedHexes, t \in 0..(ShadeCount - 1), f \in SHADING_KEYS,
        w \in WhiteRatios, b \in BlackRatios}

InitShades ==
    /\ heap = [id \in ArrayIds |->
                 CASE id = "DEFAULT_COLORS" -> DEFAULT_COLORS
                   [] id = "state0" -> SpreadArray(DEFAULT_COLORS)
                   [] OTHER -> EmptyArray]
    /\ palette = "state0"
    /\ prev = "state0"
    /\ prevValue = SpreadArray(DEFAULT_COLORS)
    /\ last = NoEvent
    /\ edits = 0
    /\ seed \in Seeds
    /\ ramp = <<>>
    /\ samples = <<>>

CallGetShades ==
    /\ ramp = <<>>
    /\ ramp' = getShades(seed)
    /\ samples' = LET all == Samples(seed)
                   IN  [k \in 1..Len(all) |->
                          [scale |-> all[k].scale, num |-> all[k].num,
                           den |-> all[k].den, value |-> all[k].value]]
    /\ UNCHANGED <<heap, palette, prev, prevValue, last, edits, seed>>

NextShades == CallGetShades

SpecShades == InitShades /\ [][NextShades]_vars

(***************************************************************************)
(* Properties.                                                             *)
(***************************************************************************)
Current == heap[palette]

Updated == last.attr # "none"

RampReturned == ramp # <<>>

SeedTargetIndex == seed[2].targetIndex[2]

\* C1: for every seed with targetIndex in 0..9, getShades returns exactly ten
\* colors: the first targetIndex + 1 are samples of the first gradient (the
\* head), the remaining 9 - targetIndex are samples of the second (the tail).
C1_HeadTailSplit ==
    RampReturned =>
        /\ Len(ramp) = 10
        /\ Len(samples) = 10
        /\ Cardinality({k \in 1..Len(samples) : samples[k].scale = "scale"})
             = SeedTargetIndex + 1
        /\ Cardinality({k \in 1..Len(samples) : samples[k].scale = "extendedScale"})
             = 9 - SeedTargetIndex
        /\ \A k \in 1..Len(samples) :
              samples[k].scale = "scale" <=> k <= SeedTargetIndex + 1

C1_Witness ==
    /\ RampReturned
    /\ SeedTargetIndex = 0
    /\ Len(ramp) = 10
    /\ samples[2].scale = "extendedScale"

\* C2: ramp[0] is the first gradient at easing(0 / (targetIndex + 1)) = 0, which
\* is exactly mix(seed, WHITE, whiteMixRatio); for targetIndex <= 8, ramp[9] is
\* the second gradient at linear(m / m) = 1 with m = 9 - targetIndex, which is
\* exactly mix(seed, BLACK, blackMixRatio).
C2_RampEndpoints ==
    RampReturned =>
        LET hex == Chroma(seed[2].hex[2])
            light == Mix(hex, <<10000, 0, 0>>, seed[2].whiteMixRatio[2])
            dark == Mix(hex, <<0, 0, 0>>, seed[2].blackMixRatio[2])
            m == 9 - SeedTargetIndex
        IN  /\ samples[1].scale = "scale"
            /\ samples[1].num = 0
            /\ samples[1].den = SeedTargetIndex + 1
            /\ samples[1].value[1] = 0
            /\ samples[1].value[2] > 0
            /\ ramp[1] = light
            /\ SeedTargetIndex <= 8 =>
                  /\ Len(ramp) >= 10
                  /\ samples[10].scale = "extendedScale"
                  /\ samples[10].num = m
                  /\ samples[10].den = m
                  /\ samples[10].value = <<m, m>>
                  /\ ramp[10] = dark

C2_Witness ==
    /\ RampReturned
    /\ seed[2].hex[2] = "#e4593e"
    /\ SeedTargetIndex = 5
    /\ seed[2].shadingFunction[2] = "easeInOut"
    /\ seed[2].whiteMixRatio[2] = 90
    /\ seed[2].blackMixRatio[2] = 85
    /\ ramp[10] = <<841, 788, 647>>
    /\ ramp[1] # ramp[10]

\* C3: an update of an in-range index produces a new palette of the same length
\* in which that entry has the field equal to the value, every other field and
\* every other entry is as before, and the previous palette object and
\* DEFAULT_COLORS are unmodified; after any sequence of updates.
C3_ImmutableUpdate ==
    (Updated /\ last.index \in 0..(prevValue.length - 1)) =>
        LET i == last.index
        IN  /\ palette # prev
            /\ Current.length = prevValue.length
            /\ DOMAIN Current.elems = DOMAIN prevValue.elems
            /\ IsObj(Current.elems[i])
            /\ DOMAIN Current.elems[i][2] = ATTRS
            /\ Current.elems[i][2][last.attr] = last.value
            /\ \A a \in ATTRS \ {last.attr} :
                  Current.elems[i][2][a] = prevValue.elems[i][2][a]
            /\ \A k \in DOMAIN prevValue.elems \ {i} :
                  Current.elems[k] = prevValue.elems[k]
            /\ heap[prev] = prevValue
            /\ heap["DEFAULT_COLORS"] = DEFAULT_COLORS

C3_Witness ==
    /\ edits = 2
    /\ last.index = 0
    /\ last.attr = "name"
    /\ Current.elems[0][2].name = Str("charcoal")
    /\ heap[prev].elems[0][2].name = Str("gray")
    /\ heap[prev].elems[3][2].hex = Str("#000000")

OutOfRange == Updated /\ last.index \notin 0..(prevValue.length - 1)

\* C4: an update with an index outside [0, length) fails with IndexOutOfRange
\* and leaves the palette state unchanged (same length, no entry added or
\* altered).
C4_OutOfRangeFails ==
    OutOfRange =>
        /\ last.error = "IndexOutOfRange"
        /\ palette = prev
        /\ Current = prevValue

RatioInRange(v) == IsNum(v) /\ v[2] >= 0 /\ v[2] <= 100

\* C5: a mix ratio outside [0, 1] is clamped: in every reachable state every
\* entry's whiteMixRatio and blackMixRatio, the ratios getShades mixes with,
\* are within [0, 1].
C5_RatiosClamped ==
    \A k \in Rendered(Current) :
        /\ RatioInRange(Current.elems[k][2].whiteMixRatio)
        /\ RatioInRange(Current.elems[k][2].blackMixRatio)

\* C6: a mix-ratio edit whose text is not numeric stores the default 0.9, and
\* no entry ever holds NaN as a mix ratio.
C6_NonNumericFallsBack ==
    /\ (Updated /\ last.attr \in RatioAttrs /\ Number(last.raw) = NaN) =>
          Current.elems[last.index][2][last.attr] = Num(90)
    /\ \A k \in Rendered(Current) :
          /\ Current.elems[k][2].whiteMixRatio # NaN
          /\ Current.elems[k][2].blackMixRatio # NaN

C6_Witness ==
    /\ edits = 2
    /\ last.attr = "whiteMixRatio"
    /\ last.raw = <<"a", "b", "c">>
    /\ Current.elems[last.index][2].whiteMixRatio = Num(90)
    /\ prevValue.elems[last.index][2].whiteMixRatio = Num(50)

\* C7: getShades never divides by zero: the head divides by targetIndex + 1 >= 1,
\* the tail quotient j / m is evaluated only for j in 1..m, and with
\* targetIndex = 9 (m = 0) no tail quotient is evaluated and the tail is empty.
C7_NoDivisionByZero ==
    RampReturned =>
        /\ \A k \in 1..Len(samples) : samples[k].den # 0
        /\ \A k \in 1..Len(samples) :
              /\ samples[k].scale = "scale" => samples[k].den = SeedTargetIndex + 1
              /\ samples[k].scale = "extendedScale" =>
                    /\ samples[k].den = 9 - SeedTargetIndex
                    /\ samples[k].num \in 1..samples[k].den
        /\ SeedTargetIndex = 9 =>
              \A k \in 1..Len(samples) : samples[k].scale = "scale"

C7_Witness ==
    /\ RampReturned
    /\ SeedTargetIndex = 9
    /\ Len(samples) = 10
    /\ samples[10].scale = "scale"
    /\ samples[10].den = 10

\* C8: the seed color is never a sampled point: every head sample i is taken at
\* i / (targetIndex + 1) < 1 (ramp[targetIndex] at targetIndex / (targetIndex + 1)),
\* every tail sample j at j / m > 0; no sample is the first gradient at 1 or
\* the second gradient at 0.
C8_SeedNeverSampled ==
    RampReturned =>
        /\ \A k \in 1..Len(samples) :
              /\ samples[k].scale = "scale" =>
                    /\ samples[k].num = k - 1
                    /\ samples[k].num < samples[k].den
                    /\ samples[k].value[1] < samples[k].value[2]
              /\ samples[k].scale = "extendedScale" =>
                    /\ samples[k].num > 0
                    /\ samples[k].den > 0
                    /\ samples[k].value[1] > 0
        /\ samples[SeedTargetIndex + 1].scale = "scale"
        /\ samples[SeedTargetIndex + 1].num = SeedTargetIndex
        /\ samples[SeedTargetIndex + 1].den = SeedTargetIndex + 1

C8_Witness ==
    /\ RampReturned
    /\ SeedTargetIndex = 5
    /\ seed[2].shadingFunction[2] = "easeInOut"
    /\ samples[6].num = 5
    /\ samples[6].den = 6
    /\ samples[7].scale = "extendedScale"
    /\ samples[7].num = 1

\* C9: in every state reachable from the default palette by edits of the input
\* surface, every entry's targetIndex is an integer in 0..9, unchanged by the
\* edits: 7 for the neutral entry, 5 for the five hue entries.
C9_TargetIndexInRange ==
    /\ Current.length = 6
    /\ Rendered(Current) = 0..5
    /\ \A k \in Rendered(Current) :
          /\ IsObj(Current.elems[k])
          /\ "targetIndex" \in DOMAIN Current.elems[k][2]
          /\ IsNum(Current.elems[k][2].targetIndex)
          /\ Current.elems[k][2].targetIndex[2] \in 0..9
          /\ Current.elems[k][2].targetIndex[2] = IF k = 0 THEN 7 ELSE 5

C9_Witness ==
    /\ edits = 2
    /\ last.attr = "shadingFunction"
    /\ last.index = 0
    /\ Current.elems[0][2].shadingFunction = Str("linear")
    /\ Current.elems[0][2].targetIndex = Num(7)
    /\ Current.elems[1][2].name = Str("charcoal")
    /\ Current.elems[1][2].targetIndex = Num(5)

\* C10: a mix-ratio edit whose text denotes a number in [0, 1], 0 and 1
\* included, stores exactly that number.
C10_BoundaryRatiosStored ==
    (Updated /\ last.attr \in RatioAttrs /\ RatioInRange(Number(last.raw))) =>
        Current.elems[last.index][2][last.attr] = Number(last.raw)

====
